---- MODULE Spec2Model ----
(***************************************************************************)
(* Model of the bounded-concurrency executors of parallelism.py            *)
(* (threadify, multiprocess) as used by downloader.py.                     *)
(*                                                                         *)
(* One call of an executor is a main thread (submit loop, progress bar,    *)
(* as_completed loop, sort, return) running against a pool of at most      *)
(* max_workers workers that take the submitted work items in FIFO order.   *)
(* When a call has ended, the caller may call an executor again on the     *)
(* same arg_list and handler, keeping the outcome of the call before.      *)
(***************************************************************************)
EXTENDS Integers, Sequences, FiniteSets, TLC

\* ------------------------------------------------------------------ bounds

\* longest arg_list
MaxTasks == 3
\* largest explicit max_threads / max_workers (the default is also tried)
MaxWorkers == 2

\* most photos of one taxon (the pictures have the ids 1..MaxPics)
MaxPics == 3
\* largest total_results the server reports
MaxTotal == 4
\* largest per_page asked for
MaxPerPage == 2
\* most records the server puts in one page, whatever per_page is
MaxPageLen == 3

\* ------------------------------------------------------------- constants

\* download_picture: a response is a success when status_code < 300
SuccessBelow == 300
\* minka_get: a response is an error when status_code > 300
ErrorAbove == 300

\* default of threadify's max_threads
DefaultMaxThreads == 10

\* argument tuples a caller may put in arg_list
Args == {"a", "b"}

\* an exception raised by the handler (or by the transfer of its result)
Raise == "Raise"
\* a handler output that pickle cannot serialise (a lock, a generator, ...)
Unpicklable == "unpicklable"
\* handler outputs
Outs == {"x", "y", Unpicklable}
\* what one handler invocation does: return an output, or raise
Outcomes == Outs \cup {Raise}
\* the handlers: deterministic functions of the argument tuple
Handlers == [Args -> Outcomes]

Backends == {"thread", "process"}
WorkerLimits == (1..MaxWorkers) \cup {DefaultMaxThreads}

\* Python's None: future.result before the future is finished or when it
\* failed, and the value of a call that has not returned a list
None == <<"None">>

VARIABLES
  backend,      \* "thread": threadify is running; "process": multiprocess
  arg_list,     \* parameter arg_list
  handler,      \* parameter handler
  max_workers,  \* parameter max_threads / max_workers
  pc,           \* position of the calling thread in the executor function
  index,        \* local index
  threads,      \* local threads / processes: the futures, in submission order
  work_queue,   \* the pool's queue of work items not yet taken by a worker
  pending,      \* as_completed: futures not yet yielded
  results,      \* local results: (index, output) pairs in collection order
  progress,     \* the rich Progress display and its task
  ret,          \* the list the call returned (None when it has not)
  prev,         \* what the caller keeps of its previous call on these inputs:
                \* the executor, how it ended, the list it returned, and
                \* whether it collected the results in submission order
  main,         \* downloader.py, __main__: the download and report of one taxon
  download,     \* downloader.py, one call of download_picture
  pagination    \* downloader.py, one call of minka_get_pagination

\* the state of an executor call
executor == <<backend, arg_list, handler, max_workers, pc, index, threads,
              work_queue, pending, results, progress, ret, prev>>

\* the state of downloader.py
downloader == <<main, download, pagination>>

vars == <<executor, downloader>>

inputs == <<arg_list, handler, max_workers>>

\* ---------------------------------------------------------------- helpers

SeqsUpTo(S, n) == UNION {[1..k -> S] : k \in 0..n}

\* bug: index is incremented before the submit
NewFuture_after_increment(i, args) ==
  [index |-> i + 1, args |-> args, state |-> "PENDING", exception |-> FALSE,
   result |-> None]

\* future, as created by executor.submit
NewFuture(i, args) ==
  [index |-> i, args |-> args, state |-> "PENDING", exception |-> FALSE,
   result |-> None]

\* downloader.py is not running
NoMain == [pc |-> "idle"]
NoDownload == [pc |-> "idle"]
NoPagination == [pc |-> "idle"]

\* no call has ended yet
NoCall == [backend |-> "none", raised |-> FALSE, value |-> None, in_order |-> FALSE]

NoProgress == [live |-> FALSE, starts |-> 0, tasks |-> 0, total |-> 0, completed |-> 0]

\* bug: every update counts twice
progress_update_twice(p, adv) == [p EXCEPT !.completed = @ + 2 * adv]

\* bug: the update carries no advance
progress_update_no_advance(p, adv) == p

\* progress.update(task, advance=adv)
progress_update(p, adv) == [p EXCEPT !.completed = @ + adv]

Running == {i \in 1..Len(threads) : threads[i].state = "RUNNING"}

\* bug: the output is tagged with the index after the increment
threadify_index_handler_next_index(i, h, args) ==
  IF h[args] = Raise
    THEN [exception |-> TRUE, result |-> None]
    ELSE [exception |-> FALSE, result |-> <<i + 1, h[args]>>]

\* __threadify_index_handler(index, handler, args): the handler's output
\* tagged with the index, or the handler's exception
threadify_index_handler(i, h, args) ==
  IF h[args] = Raise
    THEN [exception |-> TRUE, result |-> None]
    ELSE [exception |-> FALSE, result |-> <<i, h[args]>>]

\* pickle.dumps of a handler output: fails on what cannot be serialised
Picklable(v) == v # Unpicklable

\* How the outcome of a work item reaches its future.  A thread worker
\* sets the future from the very object the call returned; a worker
\* process pickles the (index, output) pair onto the result queue, and a
\* pair that cannot be pickled reaches the future as an exception.
SetFuture(b, r) ==
  IF b = "process" /\ ~r.exception /\ ~Picklable(r.result[2])
    THEN [exception |-> TRUE, result |-> None]
    ELSE r

\* ------------------------------------------------------------------- sort

\* sorted(results, key=lambda a: a[0]): ascending by the index a[0], and
\* stable: pairs with equal keys keep their order.  Position(rs, k) is the
\* place of rs[k] in the sorted list.
Position(rs, k) ==
  Cardinality({j \in 1..Len(rs) : rs[j][1] < rs[k][1]})
  + Cardinality({j \in 1..k : rs[j][1] = rs[k][1]})

\* bug: the results are left in collection order
sorted_not(rs) == rs

sorted(rs) ==
  [p \in 1..Len(rs) |-> rs[CHOOSE k \in 1..Len(rs) : Position(rs, k) = p]]

\* bug: the loop starts at the second pair
StripIndex_from_second(rs) == [k \in 1..(Len(rs) - 1) |-> rs[k + 1][2]]

\* the loop that drops the index of every pair
StripIndex(rs) == [k \in 1..Len(rs) |-> rs[k][2]]

\* bug: threadify returns the outputs without sorting them
threadify_final_results_unsorted(rs) == StripIndex(rs)

\* threadify, lines 45-50
threadify_final_results(rs) == StripIndex(sorted(rs))

\* bug: multiprocess returns the outputs without sorting them
multiprocess_final_results_unsorted(rs) == StripIndex(rs)

\* multiprocess, lines 80-85
multiprocess_final_results(rs) == StripIndex(sorted(rs))

final_results(b, rs) ==
  IF b = "thread" THEN threadify_final_results(rs)
  ELSE multiprocess_final_results(rs)

\* ------------------------------------------------------------------- init

\* entry of threadify / multiprocess: index = 0, the pool is created,
\* threads = [], results = []
Enter(b) ==
  /\ backend' = b
  /\ pc' = "submit"
  /\ index' = 0
  /\ threads' = <<>>
  /\ work_queue' = <<>>
  /\ pending' = {}
  /\ results' = <<>>
  /\ progress' = NoProgress
  /\ ret' = None

Init ==
  /\ backend \in Backends
  /\ arg_list \in SeqsUpTo(Args, MaxTasks)
  /\ handler \in Handlers
  /\ max_workers \in WorkerLimits
  /\ pc = "submit"
  /\ index = 0
  /\ threads = <<>>
  /\ work_queue = <<>>
  /\ pending = {}
  /\ results = <<>>
  /\ progress = NoProgress
  /\ ret = None
  /\ prev = NoCall
  /\ main = NoMain
  /\ download = NoDownload
  /\ pagination = NoPagination

\* ------------------------------------------------------------ main thread

\* for args in arg_list: threads.append(executor.submit(...)); index += 1
Submit ==
  /\ pc = "submit"
  /\ index < Len(arg_list)
  /\ threads' = Append(threads, NewFuture(index, arg_list[index + 1]))
  /\ work_queue' = Append(work_queue, index + 1)
  /\ index' = index + 1
  /\ UNCHANGED <<backend, inputs, pc, pending, results, progress, ret, prev, downloader>>

\* bug (or another design): no progress display for an empty arg_list
OpenProgress_unless_empty ==
  /\ pc = "submit"
  /\ index = Len(arg_list)
  /\ progress' = IF index = 0 THEN progress
                 ELSE [live |-> TRUE, starts |-> progress.starts + 1,
                       tasks |-> progress.tasks + 1, total |-> index, completed |-> 0]
  /\ pending' = 1..Len(threads)
  /\ pc' = "collect"
  /\ UNCHANGED <<backend, inputs, index, threads, work_queue, results, ret, prev, downloader>>

\* with Progress() as progress: task = progress.add_task(text, total=index);
\* the as_completed generator is created over all the futures
OpenProgress ==
  /\ pc = "submit"
  /\ index = Len(arg_list)
  /\ progress' = [live |-> TRUE, starts |-> progress.starts + 1,
                  tasks |-> progress.tasks + 1, total |-> index, completed |-> 0]
  /\ pending' = 1..Len(threads)
  /\ pc' = "collect"
  /\ UNCHANGED <<backend, inputs, index, threads, work_queue, results, ret, prev, downloader>>

\* one iteration of the as_completed loop whose future holds a result:
\* results.append(future.result()); progress.update(task, advance=1)
CollectResult(i) ==
  /\ pc = "collect"
  /\ i \in pending
  /\ threads[i].state = "FINISHED"
  /\ ~threads[i].exception
  /\ pending' = pending \ {i}
  /\ results' = Append(results, threads[i].result)
  /\ progress' = progress_update(progress, 1)
  /\ UNCHANGED <<backend, inputs, pc, index, threads, work_queue, ret, prev, downloader>>

\* bug: the loop catches the exception of a failed future and goes on
CollectException_swallowed(i) ==
  /\ pc = "collect"
  /\ i \in pending
  /\ threads[i].state = "FINISHED"
  /\ threads[i].exception
  /\ pending' = pending \ {i}
  /\ UNCHANGED <<backend, inputs, pc, index, threads, work_queue, results,
                 progress, ret, prev, downloader>>

\* bug: on a failure the pool is shut down with cancel_futures=True
CollectException_cancelling(i) ==
  /\ pc = "collect"
  /\ i \in pending
  /\ threads[i].state = "FINISHED"
  /\ threads[i].exception
  /\ pending' = pending \ {i}
  /\ progress' = [progress EXCEPT !.live = FALSE]
  /\ work_queue' = <<>>
  /\ pc' = "unwind"
  /\ UNCHANGED <<backend, inputs, index, threads, results, ret, prev, downloader>>

\* one iteration whose future holds an exception: future.result() raises,
\* the exception leaves the loop and the Progress block (the display stops)
CollectException(i) ==
  /\ pc = "collect"
  /\ i \in pending
  /\ threads[i].state = "FINISHED"
  /\ threads[i].exception
  /\ pending' = pending \ {i}
  /\ progress' = [progress EXCEPT !.live = FALSE]
  /\ pc' = "unwind"
  /\ UNCHANGED <<backend, inputs, index, threads, work_queue, results, ret, prev, downloader>>

\* as_completed is exhausted: the Progress block ends, the results are
\* sorted by index and stripped of it (final_results)
SortResults ==
  /\ pc = "collect"
  /\ pending = {}
  /\ progress' = [progress EXCEPT !.live = FALSE]
  /\ ret' = final_results(backend, results)
  /\ pc' = "return"
  /\ UNCHANGED <<backend, inputs, index, threads, work_queue, pending, results, prev, downloader>>

\* executor.__exit__ = shutdown(wait=True): blocks until no work item is
\* queued or running
PoolIdle == work_queue = <<>> /\ Running = {}

\* return final_results, through the executor's with block
Return ==
  /\ pc = "return"
  /\ PoolIdle
  /\ pc' = "returned"
  /\ UNCHANGED <<backend, inputs, index, threads, work_queue, pending, results,
                 progress, ret, prev, downloader>>

\* bug: the pool is shut down with wait=False
Propagate_without_waiting ==
  /\ pc = "unwind"
  /\ pc' = "raised"
  /\ UNCHANGED <<backend, inputs, index, threads, work_queue, pending, results,
                 progress, ret, prev, downloader>>

\* the exception leaves the executor's with block and reaches the caller
Propagate ==
  /\ pc = "unwind"
  /\ PoolIdle
  /\ pc' = "raised"
  /\ UNCHANGED <<backend, inputs, index, threads, work_queue, pending, results,
                 progress, ret, prev, downloader>>

\* the caller calls threadify or multiprocess again, on the same inputs
Call(b) ==
  /\ pc \in {"returned", "raised"}
  /\ prev' = [backend |-> backend, raised |-> pc = "raised", value |-> ret,
              in_order |-> results = sorted(results)]
  /\ Enter(b)
  /\ UNCHANGED <<inputs, downloader>>

\* ---------------------------------------------------------------- workers

\* bug: the pool starts a worker for every queued item, whatever max_workers
Start_unbounded ==
  /\ work_queue # <<>>
  /\ threads' = [threads EXCEPT ![Head(work_queue)].state = "RUNNING"]
  /\ work_queue' = Tail(work_queue)
  /\ UNCHANGED <<backend, inputs, pc, index, pending, results, progress, ret, prev, downloader>>

\* bug: a worker ends after its first work item instead of taking the next
Start_once_per_worker ==
  /\ work_queue # <<>>
  /\ Cardinality({i \in 1..Len(threads) : threads[i].state # "PENDING"}) < max_workers
  /\ threads' = [threads EXCEPT ![Head(work_queue)].state = "RUNNING"]
  /\ work_queue' = Tail(work_queue)
  /\ UNCHANGED <<backend, inputs, pc, index, pending, results, progress, ret, prev, downloader>>

\* a worker takes the oldest queued work item and calls
\* __threadify_index_handler on it
Start ==
  /\ work_queue # <<>>
  /\ Cardinality(Running) < max_workers
  /\ threads' = [threads EXCEPT ![Head(work_queue)].state = "RUNNING"]
  /\ work_queue' = Tail(work_queue)
  /\ UNCHANGED <<backend, inputs, pc, index, pending, results, progress, ret, prev, downloader>>

\* bug: a work item whose call failed is queued again
Finish_retrying(i) ==
  /\ i \in Running
  /\ LET r == SetFuture(backend,
                threadify_index_handler(threads[i].index, handler, threads[i].args))
     IN IF r.exception
          THEN /\ threads' = [threads EXCEPT ![i].state = "PENDING"]
               /\ work_queue' = Append(work_queue, i)
          ELSE /\ threads' = [threads EXCEPT ![i].state = "FINISHED",
                                             ![i].exception = r.exception,
                                             ![i].result = r.result]
               /\ UNCHANGED work_queue
  /\ UNCHANGED <<backend, inputs, pc, index, pending, results,
                 progress, ret, prev, downloader>>

\* bug: the worker too advances the progress bar when its call ends
Finish_advancing(i) ==
  /\ i \in Running
  /\ LET r == SetFuture(backend,
                threadify_index_handler(threads[i].index, handler, threads[i].args))
     IN threads' = [threads EXCEPT ![i].state = "FINISHED",
                                   ![i].exception = r.exception,
                                   ![i].result = r.result]
  /\ progress' = progress_update(progress, 1)
  /\ UNCHANGED <<backend, inputs, pc, index, work_queue, pending, results,
                 ret, prev, downloader>>

\* the call of a running work item ends; its future is set
Finish(i) ==
  /\ i \in Running
  /\ LET r == SetFuture(backend,
                threadify_index_handler(threads[i].index, handler, threads[i].args))
     IN threads' = [threads EXCEPT ![i].state = "FINISHED",
                                   ![i].exception = r.exception,
                                   ![i].result = r.result]
  /\ UNCHANGED <<backend, inputs, pc, index, work_queue, pending, results,
                 progress, ret, prev, downloader>>

\* ------------------------------------------------------------------- spec

\* the steps of one call: the calling thread's and the workers'
RunStep ==
  \/ Submit
  \/ OpenProgress
  \/ \E i \in 1..MaxTasks : CollectResult(i)
  \/ \E i \in 1..MaxTasks : CollectException(i)
  \/ SortResults
  \/ Return
  \/ Propagate
  \/ Start
  \/ \E i \in 1..MaxTasks : Finish(i)

Next ==
  \/ RunStep
  \/ \E b \in Backends : Call(b)

Spec == Init /\ [][Next]_vars

\* One call, from its entry to its end.  The calling thread and the
\* workers are scheduled fairly and every handler invocation terminates:
\* a step of the call that stays possible is taken.
FairSpec == Init /\ [][RunStep]_vars /\ WF_vars(RunStep)

\* ------------------------------------------------- downloader.py: helpers

\* formats = ["jpeg", "jpg", "png"]
formats == <<"jpeg", "jpg", "png">>

\* status codes a request may be answered with
Statuses == {200, 299, 300, 301, 404}

\* .../local_photos/files/{pic_id}/original.{format}
Url(pic_id, format) == <<pic_id, format>>

\* bug: the test is status_code <= 300
status_ok_inclusive(status) == status <= SuccessBelow

\* r.status_code < 300
status_ok(status) == status < SuccessBelow

\* bug: the number of pages is rounded down
npages_floor(total, per_page) == total \div per_page

\* np.ceil(total/per_page)
npages_of(total, per_page) == (total + per_page - 1) \div per_page

\* the orders in which n tasks may complete
Perms(n) == {f \in [1..n -> 1..n] : \A j, k \in 1..n : f[j] = f[k] => j = k}

\* the executor state while downloader.py alone is looked at
ExecutorIdle ==
  /\ backend = "thread"
  /\ arg_list = <<>>
  /\ handler = [a \in Args |-> Raise]
  /\ max_workers = DefaultMaxThreads
  /\ pc = "idle"
  /\ index = 0
  /\ threads = <<>>
  /\ work_queue = <<>>
  /\ pending = {}
  /\ results = <<>>
  /\ progress = NoProgress
  /\ ret = None
  /\ prev = NoCall

\* --------------------------------------- downloader.py: download_picture

\* download_picture(pic_id, output) is entered; the server will answer the
\* request for the k-th format with statuses[k]
DownloadInit ==
  /\ ExecutorIdle
  /\ main = NoMain
  /\ pagination = NoPagination
  /\ \E pic_id \in 1..MaxPics, statuses \in [1..Len(formats) -> Statuses] :
        download = [pc |-> "loop", pic_id |-> pic_id, statuses |-> statuses,
                    tried |-> 0, success |-> FALSE, url |-> None,
                    requests |-> <<>>, writes |-> 0, result |-> None]

\* one iteration of for format in formats: the url is built and requested;
\* a success sets the flag and breaks the loop
Request ==
  /\ download.pc = "loop"
  /\ download.tried < Len(formats)
  /\ LET k == download.tried + 1
         url == Url(download.pic_id, formats[k])
         ok == status_ok(download.statuses[k])
     IN download' = [download EXCEPT
                       !.tried = k,
                       !.url = url,
                       !.requests = Append(@, url),
                       !.success = ok,
                       !.pc = IF ok \/ k = Len(formats) THEN "loop_done" ELSE "loop"]
  /\ UNCHANGED <<executor, main, pagination>>

\* if success: the content is written to the output file
WriteFile ==
  /\ download.pc = "loop_done"
  /\ download.success
  /\ download' = [download EXCEPT !.writes = @ + 1, !.pc = "return"]
  /\ UNCHANGED <<executor, main, pagination>>

\* if not success: nothing is written
SkipWrite ==
  /\ download.pc = "loop_done"
  /\ ~download.success
  /\ download' = [download EXCEPT !.pc = "return"]
  /\ UNCHANGED <<executor, main, pagination>>

\* return success, url
ReturnPair ==
  /\ download.pc = "return"
  /\ download' = [download EXCEPT !.result = <<download.success, download.url>>,
                                  !.pc = "returned"]
  /\ UNCHANGED <<executor, main, pagination>>

DownloadNext == Request \/ WriteFile \/ SkipWrite \/ ReturnPair

\* one call of download_picture
DownloadSpec == DownloadInit /\ [][DownloadNext]_vars

\* ----------------------------------- downloader.py: minka_get_pagination

\* status codes minka_get may be answered with
PageStatuses == {200, 300, 404}

\* minka_get raises ValueError when r.status_code > 300
http_error(status) == status > ErrorAbove

\* the records of page number page, n of them
Records(page, n) == [k \in 1..n |-> page]

\* minka_get_pagination(endpoint, per_page=per_page) is entered: i = 1
PaginationInit ==
  /\ ExecutorIdle
  /\ main = NoMain
  /\ download = NoDownload
  /\ \E per_page \in 1..MaxPerPage :
        pagination = [pc |-> "first", per_page |-> per_page, i |-> 1,
                      total |-> None, npages |-> None, results |-> <<>>,
                      requested |-> <<>>, raised |-> None]

\* the first minka_get: the answer gives the first records, total_results
\* and from it the number of pages
FirstPage(status, n, total) ==
  /\ pagination.pc = "first"
  /\ pagination' =
       IF http_error(status)
       THEN [pagination EXCEPT !.requested = Append(@, 1),
                               !.raised = "http", !.pc = "raised"]
       ELSE [pagination EXCEPT !.requested = Append(@, 1),
                               !.results = Records(1, n),
                               !.total = total,
                               !.npages = npages_of(total, pagination.per_page),
                               !.pc = "loop"]
  /\ UNCHANGED <<executor, main, download>>

\* one iteration of while i < npages: the next page is requested and its
\* records are added
NextPage(status, n) ==
  /\ pagination.pc = "loop"
  /\ pagination.i < pagination.npages
  /\ LET page == pagination.i + 1
     IN pagination' =
          IF http_error(status)
          THEN [pagination EXCEPT !.i = page, !.requested = Append(@, page),
                                  !.raised = "http", !.pc = "raised"]
          ELSE [pagination EXCEPT !.i = page, !.requested = Append(@, page),
                                  !.results = @ \o Records(page, n)]
  /\ UNCHANGED <<executor, main, download>>

\* after the loop: if len(results) != total: raise ValueError
CheckTotal ==
  /\ pagination.pc = "loop"
  /\ ~(pagination.i < pagination.npages)
  /\ pagination' =
       IF Len(pagination.results) # pagination.total
       THEN [pagination EXCEPT !.raised = "mismatch", !.pc = "raised"]
       ELSE [pagination EXCEPT !.pc = "returned"]
  /\ UNCHANGED <<executor, main, download>>

PaginationNext ==
  \/ \E status \in PageStatuses, n \in 0..MaxPageLen, total \in 0..MaxTotal :
       FirstPage(status, n, total)
  \/ \E status \in PageStatuses, n \in 0..MaxPageLen : NextPage(status, n)
  \/ CheckTotal

\* one call of minka_get_pagination
PaginationSpec == PaginationInit /\ [][PaginationNext]_vars

\* -------------------------------- downloader.py: __main__, one taxon

\* what download_picture(pic_id, output) can return
DownloadResults(pic_id) ==
  {<<TRUE, Url(pic_id, formats[k])>> : k \in 1..Len(formats)}
    \cup {<<FALSE, Url(pic_id, formats[Len(formats)])>>}

\* the taxon id is resolved and arguments holds one (pic_id, filename) per
\* photo of the taxon's observations; downloads[k] is what download_picture
\* will return for the k-th of them. os.makedirs creates the taxon's folder
\* for each photo; without any photo the folder may or may not exist
MainInit ==
  /\ ExecutorIdle
  /\ download = NoDownload
  /\ pagination = NoPagination
  /\ \E n \in 0..MaxPics, folder \in BOOLEAN :
       \E downloads \in [1..n -> UNION {DownloadResults(k) : k \in 1..n}] :
         /\ \A k \in 1..n : downloads[k] \in DownloadResults(k)
         /\ n > 0 => folder
         /\ main = [pc |-> "threadify", arguments |-> [k \in 1..n |-> k],
                     downloads |-> downloads, folder |-> folder,
                     total |-> None, stats |-> None,
                     good |-> None, bad |-> None, failed_txt |-> None,
                     printed |-> <<>>]

\* total = len(arguments); stats = threadify(arguments, download_picture):
\* the downloads complete in some order and threadify returns what it
\* collected, by submission index
Threadify(order) ==
  /\ main.pc = "threadify"
  /\ LET n == Len(main.arguments)
         collected == [k \in 1..n |-> <<order[k] - 1, main.downloads[order[k]]>>]
     IN main' = [main EXCEPT !.total = n,
                             !.stats = threadify_final_results(collected),
                             !.pc = "count"]
  /\ UNCHANGED <<executor, download, pagination>>

\* good = len([s for s, _ in stats if s is True]), bad likewise with False
CountStats ==
  /\ main.pc = "count"
  /\ main' = [main EXCEPT
                !.good = Cardinality({k \in 1..Len(main.stats) : main.stats[k][1] = TRUE}),
                !.bad = Cardinality({k \in 1..Len(main.stats) : main.stats[k][1] = FALSE}),
                !.pc = "write"]
  /\ UNCHANGED <<executor, download, pagination>>

\* failed.txt is opened in the taxon's folder, which raises when the folder
\* does not exist; the url of every stat whose status is false is written,
\* one per line
WriteFailed ==
  /\ main.pc = "write"
  /\ main' = IF ~main.folder
             THEN [main EXCEPT !.pc = "FileNotFoundError"]
             ELSE [main EXCEPT
                     !.failed_txt = LET failed == SelectSeq(main.stats, LAMBDA st : ~st[1])
                                    IN [k \in 1..Len(failed) |-> failed[k][2]],
                     !.pc = "print_success"]
  /\ UNCHANGED <<executor, download, pagination>>

\* rich.print(... 100*(good/total) ...): the division raises when total is 0
PrintSuccess ==
  /\ main.pc = "print_success"
  /\ main' = IF main.total = 0
             THEN [main EXCEPT !.pc = "ZeroDivisionError"]
             ELSE [main EXCEPT !.printed = Append(@, <<main.good, main.total>>),
                               !.pc = "print_fail"]
  /\ UNCHANGED <<executor, download, pagination>>

\* rich.print(... 100*(bad/total) ...)
PrintFail ==
  /\ main.pc = "print_fail"
  /\ main' = [main EXCEPT !.printed = Append(@, <<main.bad, main.total>>),
                          !.pc = "done"]
  /\ UNCHANGED <<executor, download, pagination>>

MainNext ==
  \/ \E order \in Perms(Len(main.arguments)) : Threadify(order)
  \/ CountStats
  \/ WriteFailed
  \/ PrintSuccess
  \/ PrintFail

\* the report of one resolved taxon
MainSpec == MainInit /\ [][MainNext]_vars

\* ----------------------------------------------------------------- claims

N == Len(arg_list)

\* handler(*arg_list[i]) for every i, in input order
Expected == [k \in 1..N |-> handler[arg_list[k]]]

SomeHandlerRaises == \E k \in 1..N : handler[arg_list[k]] = Raise

\* the outputs come back in an order that is not the input order
OutOfOrder == results # sorted(results)

\* C1 - Order preservation: whenever threadify or multiprocess returns,
\* the returned list holds at every position i the handler's output for
\* arg_list[i], whatever order the workers completed in.
C1_OrderPreservation == pc = "returned" => ret = Expected

\* a call of MaxTasks tasks with two different outputs returned although
\* the results were collected out of input order
C1_Witness ==
  /\ pc = "returned"
  /\ N = MaxTasks
  /\ OutOfOrder
  /\ \E j, k \in 1..N : ret[j] # ret[k]

\* C2 - Completeness: a returned list has exactly N elements, and a call
\* on an empty arg_list never fails: when it has ended, it has returned
\* the empty list.
C2_Completeness ==
  /\ pc = "returned" => Len(ret) = N
  /\ (N = 0 /\ pc \notin {"submit", "collect"}) => (pc \in {"return", "returned"} /\ ret = <<>>)

\* a call of MaxTasks tasks has returned
C2_Witness == pc = "returned" /\ N = MaxTasks /\ Len(ret) = MaxTasks

\* C3 - Concurrency bound: at most max_workers handler invocations are
\* executing at any time.
C3_ConcurrencyBound == Cardinality(Running) <= max_workers

\* the pool is saturated while a submitted task still waits for a worker
C3_Witness ==
  /\ Cardinality(Running) = max_workers
  /\ work_queue # <<>>

\* C4 - Fail-fast: when the handler raises for at least one task, the call
\* never gets to return a list, full or partial, and when it has ended it
\* has propagated the failure.
C4_FailFast ==
  SomeHandlerRaises =>
    /\ ret = None
    /\ pc \in {"submit", "collect", "unwind", "raised"}

\* a call ended by propagating a failure after it had collected results
C4_Witness ==
  /\ SomeHandlerRaises
  /\ pc = "raised"
  /\ results # <<>>

\* C5 - Progress counter safety: the counter stays within 0..N, and while
\* a call is running every step leaves it unchanged or adds exactly 1.
C5_ProgressCounterSafety ==
  /\ [](0 <= progress.completed /\ progress.completed <= N)
  /\ [][pc \notin {"returned", "raised"} =>
          \/ progress.completed' = progress.completed
          \/ progress.completed' = progress.completed + 1]_vars

\* the counter has counted every task of a call of MaxTasks tasks
C5_Witness == N = MaxTasks /\ progress.completed = MaxTasks /\ pc = "collect"

\* C6 - Progress completion.  As stated (no handler raises => the counter
\* reaches N), in the form a finished call refutes: a call in which no
\* handler raises ends by returning, with the counter at N.
C6_AsClaimed ==
  (~SomeHandlerRaises /\ pc \in {"returned", "raised"}) =>
    (pc = "returned" /\ progress.completed = N)

\* every handler output can be pickled
AllPicklable == \A k \in 1..N : Picklable(handler[arg_list[k]])

\* no future of the call ends with an exception: no handler raises and,
\* in multiprocess, every result can be pickled back to the caller
NoTaskFails == ~SomeHandlerRaises /\ (backend = "process" => AllPicklable)

\* C6 as amended: in every call in which no task fails, under fair
\* scheduling the counter eventually equals N, and whenever a call has
\* returned its list the counter equals N.
C6_ProgressCompletion ==
  /\ [](pc = "returned" => progress.completed = N)
  /\ [](NoTaskFails => <>(progress.completed = N))

\* a call of MaxTasks tasks, none failing, has returned with a full counter
C6_Witness ==
  /\ NoTaskFails
  /\ pc = "returned"
  /\ N = MaxTasks
  /\ progress.completed = MaxTasks
  /\ progress.total = MaxTasks

\* C7 - Exactly-once results: the result buffer never holds two pairs
\* with the same index, every pair (i, out) holds the output of the
\* handler on arg_list[i], and at normal return the indices in the buffer
\* are exactly 0..N-1.
C7_ExactlyOnce ==
  /\ \A j, k \in 1..Len(results) : j # k => results[j][1] # results[k][1]
  /\ \A k \in 1..Len(results) :
        /\ results[k][1] \in 0..(N - 1)
        /\ results[k][2] = handler[arg_list[results[k][1] + 1]]
  /\ pc \in {"return", "returned"} =>
        {results[k][1] : k \in 1..Len(results)} = 0..(N - 1)

\* a returned call whose last-submitted task was collected first
C7_Witness ==
  /\ pc = "returned"
  /\ N = MaxTasks
  /\ Len(results) = MaxTasks
  /\ results[1][1] = MaxTasks - 1

\* the call that just ended and the caller's previous call, made with the
\* other executor on the same inputs
EndedAfterOtherBackend ==
  /\ pc \in {"returned", "raised"}
  /\ prev.backend \notin {"none", backend}

\* both calls raised, or both returned the same list
SameOutcome == prev.raised = (pc = "raised") /\ prev.value = ret

\* C8 - Backend equivalence, as stated: threadify and multiprocess end the
\* same way on the same inputs.
C8_AsClaimed == EndedAfterOtherBackend => SameOutcome

\* C8 as amended: the two executors end the same way exactly when some
\* handler raises or every result can be pickled; otherwise threadify
\* returns the list and multiprocess propagates a failure.
C8_BackendEquivalence ==
  EndedAfterOtherBackend =>
    /\ SameOutcome <=> (SomeHandlerRaises \/ AllPicklable)
    /\ ~SameOutcome => IF backend = "thread"
                         THEN pc = "returned" /\ prev.raised
                         ELSE pc = "raised" /\ ~prev.raised

\* the two executors returned the same list of MaxTasks outputs, the
\* second after collecting out of input order
C8_Witness ==
  /\ EndedAfterOtherBackend
  /\ pc = "returned"
  /\ ~prev.raised
  /\ N = MaxTasks
  /\ OutOfOrder

\* C9 - Schedule determinism: two calls of the same executor on the same
\* inputs that both return, return the same list.
C9_ScheduleDeterminism ==
  (pc = "returned" /\ prev.backend = backend /\ ~prev.raised) => prev.value = ret

\* two calls of the same executor returned, one having collected in input
\* order, the other not
C9_Witness ==
  /\ pc = "returned"
  /\ prev.backend = backend
  /\ ~prev.raised
  /\ prev.in_order
  /\ OutOfOrder
  /\ \E j, k \in 1..N : Expected[j] # Expected[k]

\* C10 - Empty input, as stated: with an empty arg_list the call returns
\* the empty list and the progress reporter is never started.
C10_AsClaimed ==
  N = 0 =>
    /\ progress.starts = 0 /\ progress.tasks = 0
    /\ pc \in {"returned", "raised"} => (pc = "returned" /\ ret = <<>>)

\* C10 as amended: with an empty arg_list the call submits nothing, waits
\* for no worker, cannot fail and returns the empty list; the progress
\* display is opened once and one progress task of total 0 is registered,
\* whose counter stays 0.
C10_EmptyInput ==
  N = 0 =>
    /\ threads = <<>> /\ results = <<>> /\ progress.completed = 0
    /\ pc \in {"submit", "collect", "return", "returned"}
    /\ pc = "submit" => (progress.starts = 0 /\ progress.tasks = 0)
    /\ pc # "submit" =>
          (progress.starts = 1 /\ progress.tasks = 1 /\ progress.total = 0)
    /\ pc \in {"return", "returned"} => ret = <<>>

\* a call on an empty arg_list has returned, its display opened once
C10_Witness == N = 0 /\ pc = "returned" /\ ret = <<>> /\ progress.starts = 1

\* the call has ended: it returned, or it propagated a failure
Ended == pc \in {"returned", "raised"}

\* C11 - Termination: every handler invocation terminating and the calling
\* thread and the workers being scheduled fairly, every call eventually
\* ends, by returning its list or by propagating a failure.
C11_Termination == <>Ended

\* a call of MaxTasks tasks on a pool of one worker has ended: the worker
\* took one work item after the other while the caller waited
C11_Witness == Ended /\ N = MaxTasks /\ max_workers = 1 /\ Len(threads) = MaxTasks

\* the steps a future may take: none, PENDING -> RUNNING (the handler is
\* invoked) or RUNNING -> FINISHED (with a result or with an exception);
\* a finished future never changes again
FutureStep(f, g) ==
  \/ g = f
  \/ f.state = "PENDING" /\ g = [f EXCEPT !.state = "RUNNING"]
  \/ /\ f.state = "RUNNING" /\ g.state = "FINISHED"
     /\ g.index = f.index /\ g.args = f.args

\* C13 - Task state machine: within a call every task only moves
\* Submitted -> Running -> Completed or Submitted -> Running -> Failed;
\* Completed and Failed are terminal, so the handler is invoked at most
\* once per task; no task is withdrawn or cancelled.
C13_TaskStateMachine ==
  /\ [](\A i \in 1..Len(threads) : threads[i].state \in {"PENDING", "RUNNING", "FINISHED"})
  /\ [][~Ended =>
          /\ Len(threads') >= Len(threads)
          /\ \A i \in 1..Len(threads) : FutureStep(threads[i], threads'[i])]_vars

\* a call has ended with one task Completed and another Failed
C13_Witness ==
  /\ Ended
  /\ \E i, j \in 1..Len(threads) :
        /\ threads[i].state = "FINISHED" /\ threads[i].exception
        /\ threads[j].state = "FINISHED" /\ ~threads[j].exception

\* C14 - Submit-all-then-wait-all in input order: the k-th future carries
\* index k-1 and the k-th element of arg_list, the local index counts the
\* submitted tasks, and all N tasks have been submitted before anything
\* is collected and before the progress counter leaves 0.
C14_SubmitAllThenWait ==
  /\ Len(threads) = index
  /\ \A k \in 1..Len(threads) :
        threads[k].index = k - 1 /\ threads[k].args = arg_list[k]
  /\ \A k \in 1..Len(work_queue) : k > 1 => work_queue[k - 1] < work_queue[k]
  /\ (pc # "submit" \/ results # <<>> \/ progress.completed # 0 \/ pending # {})
        => Len(threads) = N

\* the caller is still submitting while a worker has already finished a
\* task: nothing is collected yet
C14_Witness ==
  /\ pc = "submit"
  /\ index < N
  /\ \E i \in 1..Len(threads) : threads[i].state = "FINISHED"

\* C15 - Pool teardown: when the call has ended, by returning or by
\* propagating, every submitted task has finished: none is executing and
\* none waits to start.
C15_PoolTeardown ==
  Ended =>
    /\ Running = {}
    /\ work_queue = <<>>
    /\ \A i \in 1..Len(threads) : threads[i].state = "FINISHED"

\* a call has propagated a failure on a pool of one worker and left
\* futures it never collected: the pool ran them all before the call ended
C15_Witness ==
  /\ pc = "raised"
  /\ max_workers = 1
  /\ Cardinality(pending) >= 2

\* C16 - No lost progress updates: the progress counter always equals the
\* number of results in the buffer, and a step that changes the counter
\* or the buffer is a step of the calling thread: it changes no future
\* and takes nothing from the pool's queue.
C16_NoLostUpdates ==
  /\ [](progress.completed = Len(results))
  /\ [][(~Ended /\ (progress # progress' \/ results # results')) =>
          (threads' = threads /\ work_queue' = work_queue)]_vars

\* two results are collected and counted while a third task has finished
\* and is not collected yet
C16_Witness ==
  /\ pc = "collect"
  /\ Len(results) = 2
  /\ progress.completed = 2
  /\ \E i \in pending : threads[i].state = "FINISHED"

\* C17 - Abort does not cancel work: when a call has propagated a failure,
\* every one of the N tasks was submitted, invoked and ran to its end; and
\* once the failure has been observed the progress counter and the result
\* buffer no longer change.
C17_AbortDoesNotCancel ==
  /\ [](pc = "raised" =>
          /\ Len(threads) = N
          /\ \A i \in 1..N : threads[i].state = "FINISHED")
  /\ [][pc = "unwind" => (progress' = progress /\ results' = results)]_vars

\* a failure has reached the caller while a task that ran to its end and
\* returned an output was never collected: its result is lost
C17_Witness ==
  /\ SomeHandlerRaises
  /\ pc = "raised"
  /\ \E i \in pending : threads[i].state = "FINISHED" /\ ~threads[i].exception

\* the extensions whose request is answered with a status below 300
Succeeding == {k \in 1..3 : download.statuses[k] < 300}

\* C18 - Download retry: whatever the three status codes are, download_picture
\* requests the extensions jpeg, jpg, png in that order and stops at the first
\* answer with status < 300; it returns (True, the locator that succeeded)
\* with the file written once, or, when all three fail, (False, the png
\* locator) with no file written.
C18_DownloadRetry ==
  /\ Len(download.requests) <= 3
  /\ \A k \in 1..Len(download.requests) :
        /\ download.requests[k] =
             Url(download.pic_id, <<"jpeg", "jpg", "png">>[k])
        /\ k > 1 => download.statuses[k - 1] >= 300
  /\ download.writes <= 1
  /\ download.pc = "returned" =>
        IF Succeeding # {}
        THEN LET first == CHOOSE k \in Succeeding : \A j \in Succeeding : k <= j
             IN /\ Len(download.requests) = first
                /\ download.result = <<TRUE, download.requests[first]>>
                /\ download.writes = 1
        ELSE /\ Len(download.requests) = 3
             /\ download.result = <<FALSE, Url(download.pic_id, "png")>>
             /\ download.writes = 0

\* jpeg is answered with 404 and jpg with exactly 300, png with 299: the
\* call returns the png locator as a success and wrote the file
C18_Witness ==
  /\ download.pc = "returned"
  /\ download.statuses = <<404, 300, 299>>
  /\ download.result = <<TRUE, Url(download.pic_id, "png")>>
  /\ download.writes = 1

\* the pages of a total: the least number of pages of per_page records that
\* hold total records
PagesFor(total, per_page) ==
  CHOOSE p \in 0..total : p * per_page >= total /\ (p = 0 \/ (p - 1) * per_page < total)

\* the first page is always requested
LastPage == IF pagination.npages = 0 THEN 1 ELSE pagination.npages

\* what the code does of C19: pages are requested 1, 2, .. once each in
\* ascending order up to ceil(total/per_page), a normal return means the
\* record count equals the total, and a mismatch raises after every page was
\* requested exactly once
PagesInOrder ==
  /\ \A k \in 1..Len(pagination.requested) : pagination.requested[k] = k
  /\ pagination.pc \in {"loop", "returned"} \/ pagination.raised = "mismatch" =>
        /\ pagination.npages = PagesFor(pagination.total, pagination.per_page)
        /\ Len(pagination.requested) <= LastPage
  /\ pagination.pc = "returned" =>
        /\ Len(pagination.results) = pagination.total
        /\ Len(pagination.requested) = LastPage
  /\ pagination.raised = "mismatch" =>
        /\ pagination.pc = "raised"
        /\ Len(pagination.results) # pagination.total
        /\ Len(pagination.requested) = LastPage

\* nothing happens after a raise or a return
PaginationEnds ==
  pagination.pc \in {"raised", "returned"} => pagination' = pagination

\* C19 as claimed - Pagination: page 1 and then pages 2..ceil(total/per_page)
\* are requested once each in ascending order, requesting stops when the
\* accumulated results reach the total, a normal return means the record
\* count equals the total, and a mismatch raises without retrying.
C19_AsClaimed ==
  /\ []PagesInOrder
  /\ [][PaginationEnds]_vars
  /\ [][(pagination.pc = "loop" /\ Len(pagination.results) >= pagination.total) =>
          pagination.requested' = pagination.requested]_vars

\* C19 - Pagination: page 1 and then pages 2..ceil(total/per_page) are
\* requested once each in ascending order, where total is the total of the
\* first page; requesting stops when that page count is reached, whatever
\* the accumulated record count is; a normal return means the record count
\* equals the total, and a mismatch raises without retrying.
C19_Pagination ==
  /\ []PagesInOrder
  /\ [][PaginationEnds]_vars
  /\ [][(pagination.pc = "loop" /\ pagination' # pagination) =>
          IF pagination.i < pagination.npages
          THEN pagination.requested' = Append(pagination.requested, pagination.i + 1)
          ELSE pagination.requested' = pagination.requested]_vars

\* the first page held all the records of a total of two pages; the second
\* page was requested all the same, came back empty, and the call returned
C19_Witness ==
  /\ pagination.pc = "returned"
  /\ pagination.per_page = 1
  /\ pagination.total = 2
  /\ pagination.results = <<1, 1>>
  /\ pagination.requested = <<1, 2>>

\* the locators of the tasks whose download failed, in task order
FailedLocators ==
  LET failed == {k \in 1..Len(main.arguments) : ~main.downloads[k][1]}
      nth(j) == CHOOSE k \in failed : Cardinality({m \in failed : m < k}) = j - 1
  IN [j \in 1..Cardinality(failed) |-> main.downloads[nth(j)][2]]

\* C12 as claimed - End-of-run report: for any number N >= 0 of photo tasks
\* the taxon is finished without error, successes plus failures equal N, and
\* failed.txt holds the locators of the failed results in task order.
C12_AsClaimed ==
  /\ main.pc \notin {"FileNotFoundError", "ZeroDivisionError"}
  /\ main.pc = "done" =>
        /\ main.good + main.bad = Len(main.arguments)
        /\ main.failed_txt = FailedLocators

====
